---- MODULE Spec2Model ----
(***************************************************************************)
(* A model of rearranger: the dedup store (db.rs, LineDb over a RocksDB    *)
(* TransactionDB) and the session orchestrator (session.rs, run).          *)
(*                                                                         *)
(* One worker task is spawned per input path; the workers share the store  *)
(* and interleave at the store's operations: the locked read               *)
(* (get_for_update) and the commit of each insert.  The run task spawns    *)
(* workers and collects their results through try_buffer_unordered, then   *)
(* writes the store back, one record of the ordered scan per step.         *)
(***************************************************************************)
EXTENDS Integers, Sequences, FiniteSets, TLC

\* Bounds of the model.
NumFiles == 2
MaxLines == 2
NumKeys == 3
NumContents == 2
MaxParallelism == 2
NumPaths == 2
\* sort_paths: the most paths sorted, and the largest file size
MaxFiles == 6
MaxSize == 6

Keys == 1..NumKeys
Contents == 1..NumContents
OutPaths == 1..NumPaths
Workers == 1..NumFiles

\* A line of text is <<k, c>>: the part F::key reads and the rest of the line.
\* k = 0 is a line F::key rejects.
BadKey == 0
Lines == ((Keys \cup {BadKey}) \X Contents) \ {<<BadKey, c>> : c \in Contents \ {1}}

\* Option: None, and Some(x).
None == <<>>
Some(x) == <<x>>

SeqsUpTo(S, n) == UNION {[1..m -> S] : m \in 0..n}

\* An input path: whether lines() can open it (a regular file whose name has an
\* extension), and the lines it holds.
FileContents ==
    {[readable |-> TRUE, lines |-> s] : s \in SeqsUpTo(Lines, MaxLines)}
        \cup {[readable |-> FALSE, lines |-> <<>>]}

VARIABLES
    source,         \* lines: the path it is called with and the file there
    lines_result,   \* lines: what it returned
    lines_pc,       \* lines: "idle", "call", "return"
    sizes,          \* sort_paths: sizes[p] is metadata().len() of path p
    paths,          \* sort_paths: the paths vector it reorders in place
    sort_pc,        \* sort_paths: "idle", "call", "ok", "err"
    files,          \* the ordered path list: files[i] is the content of path i
    parallelism,    \* run's parallelism argument
    output_is_dir,  \* whether the output path is an existing directory
    discovered,     \* whether run has read the input directory (file_paths, sort_paths)
    db_dir,         \* the TempDir of the store: "none", "present", "removed"
    run_pc,         \* where run is: "start", "discover", "open", "ingest", "write",
                    \* "done", "failed"
    next_path,      \* the next path the stream of run hands to map
    in_progress,    \* try_buffer_unordered's in_progress_queue: workers spawned, not collected
    repeats,        \* the Vec<Repeat> try_collect builds
    run_error,      \* the error run returned
    task_pc,        \* each worker: "unspawned", "open", "insert", "locked", "ok", "err"
    line_number,    \* LineReader.line_number of each worker
    value,          \* the value each worker's transaction read under the lock
    task_repeats,   \* the repeats vector of each worker
    task_error,     \* the error each worker returned
    store,          \* the committed content of the TransactionDB: key -> line or None
    lock,           \* the lock manager: key -> the worker whose transaction holds it, or 0
    log,            \* history: per key, the commits in commit order
    pos,            \* write: the number of records of the scan consumed
    path_of,        \* the results of F::path, key -> result, recorded as write derives them
    file_counts,    \* write: the HashMap from path to count
    last_path,      \* write: Option<PathBuf>
    writer,         \* write: Some(the path whose file the writer has open), or None
    out,            \* the output directory: the files created, path -> lines
    write_report    \* Some(the WriteReport run returns), None before

vars == <<source, lines_result, lines_pc, sizes, paths, sort_pc, files, parallelism, output_is_dir, discovered, db_dir, run_pc, next_path, in_progress, repeats, run_error,
          task_pc, line_number, value, task_repeats, task_error, store, lock, log,
          pos, path_of, file_counts, last_path, writer, out, write_report>>

inputVars == <<files, parallelism, output_is_dir>>
envVars == <<discovered, db_dir>>
\* The calls of sort_paths and lines that are observed on their own.
callVars == <<sizes, paths, sort_pc, source, lines_result, lines_pc>>
runVars == <<run_pc, next_path, in_progress, repeats, run_error>>
taskVars == <<task_pc, line_number, value, task_repeats, task_error>>
dbVars == <<store, lock, log>>
writeVars == <<pos, path_of, file_counts, last_path, writer, out, write_report>>

NoError == [kind |-> "none", path |-> 0, line |-> 0]

----
\* The Key/Path capability.

\* F::key: the key bytes of a line, or an error.
KeyErr == 0
key(line) == IF line[1] = BadKey THEN KeyErr ELSE line[1]

\* F::path results: an output-relative path, or an error.
PathErr == 0
PathResults == OutPaths \cup {PathErr}

----
\* lines.rs

\* lines(): whether the path opens as a line source.
lines_ok(i) == files[i].readable

\* The items LineReader yields for path i.
file_lines(i) == files[i].lines

----
\* db.rs: insert

\* A lock manager that grants every request.
LockGrantedAlways(k, i) == TRUE

\* A lock manager with one lock for the whole store.
LockGrantedStoreWide(k, i) == \A other \in Keys : lock[other] = 0

\* get_for_update(key, exclusive): the lock is granted when no other transaction holds it.
LockGranted(k, i) == lock[k] = 0

\* get_for_update(key, false): a shared lock, which excludes no other reader.
AcquireShared(lk, k, i) == lk

\* get_for_update(key, true): the transaction holds the key exclusively.
Acquire(lk, k, i) == [lk EXCEPT ![k] = i]

\* commit, or the drop of the transaction: the key is unlocked.
Release(lk, k) == [lk EXCEPT ![k] = 0]

\* Stored bytes that are not valid UTF-8: no line is these bytes.
InvalidUtf8 == <<0, 0>>

\* std::str::from_utf8(&bytes) is Ok.
from_utf8_ok(bytes) == bytes # InvalidUtf8

\* The ? of db.rs 77: the value read differs from the line and is not UTF-8.
ResultIsErr(read, line) == read # None /\ read # line /\ ~from_utf8_ok(read)

\* A transaction whose drop leaves its lock held.
RollbackKeepingLock(lk, k) == lk

\* insert returns early: the transaction is dropped without a commit, which
\* discards it and unlocks the key.
Rollback(lk, k) == [lk EXCEPT ![k] = 0]

\* The worker maps the error of insert to KeyParsing(error, path, line_number)
\* and returns it.
InsertErr(i) ==
    /\ task_pc' = [task_pc EXCEPT ![i] = "err"]
    /\ task_error' = [task_error EXCEPT ![i] =
           [kind |-> "KeyParsing", path |-> i, line |-> line_number[i]]]
    /\ UNCHANGED <<line_number, task_repeats, store, log>>

\* The result of insert from the value the transaction read (db.rs 66-77).
NotPresent == [tag |-> "NotPresent", old |-> None]
PresentSame == [tag |-> "PresentSame", old |-> None]
PresentDifferent(old) == [tag |-> "PresentDifferent", old |-> old]

\* An insert that does not compare the bytes: every present value is a replacement.
InsertResultNoCompare(read, line) ==
    IF read = None THEN NotPresent ELSE PresentDifferent(read)

InsertResult(read, line) ==
    IF read = None THEN NotPresent
    ELSE IF read # line THEN PresentDifferent(read)
    ELSE PresentSame

\* A put that keeps the value a key already has.
PutIfAbsent(st, k, line) == IF st[k] = None THEN [st EXCEPT ![k] = line] ELSE st

\* tx.put; tx.commit: the store after the commit.
Put(st, k, line) == [st EXCEPT ![k] = line]

\* count(): the number of keys the iterator yields.
count == Cardinality({k \in Keys : store[k] # None})

----
\* session.rs: the worker task

\* A location that counts the lines from zero.
LocationFromZero(p, n) == [path |-> p, line_number |-> n - 1]

\* Location::new(path, line_number): the reader counts the lines from 1.
Location(p, n) == [path |-> p, line_number |-> n]

\* A Replacement with the two values exchanged.
MakeRepeatSwapped(p, n, result, line) ==
    [location |-> Location(p, n),
     replacement |-> IF result.tag = "PresentDifferent"
                     THEN [old_value |-> line, new_value |-> result.old]
                     ELSE None]

\* The Repeat a worker pushes for an insert that returned Some(replaced) (session.rs 79-92).
MakeRepeat(p, n, result, line) ==
    [location |-> Location(p, n),
     replacement |-> IF result.tag = "PresentDifferent"
                     THEN [old_value |-> result.old, new_value |-> line]
                     ELSE None]

PushRepeat(rs, p, n, result, line) ==
    IF result.tag = "NotPresent" THEN rs ELSE Append(rs, MakeRepeat(p, n, result, line))

\* The line worker i is inserting.
CurrentLine(i) == file_lines(i)[line_number[i]]

\* The worker moves to the item n of its line source: the end of the file ends the
\* task with Ok(repeats); a line F::key rejects ends it with KeyParsing at the
\* start of insert, before any transaction; otherwise insert begins.
Advance(i, n) ==
    IF n > Len(file_lines(i))
    THEN /\ task_pc' = [task_pc EXCEPT ![i] = "ok"]
         /\ line_number' = line_number
         /\ task_error' = task_error
    ELSE /\ line_number' = [line_number EXCEPT ![i] = n]
         /\ IF key(file_lines(i)[n]) = KeyErr
            THEN /\ task_pc' = [task_pc EXCEPT ![i] = "err"]
                 /\ task_error' = [task_error EXCEPT ![i] =
                        [kind |-> "KeyParsing", path |-> i, line |-> n]]
            ELSE /\ task_pc' = [task_pc EXCEPT ![i] = "insert"]
                 /\ task_error' = task_error

\* lines(&path)?, then the first item of the loop.
Open(i) ==
    /\ task_pc[i] = "open"
    /\ IF lines_ok(i)
       THEN Advance(i, 1)
       ELSE /\ task_pc' = [task_pc EXCEPT ![i] = "err"]
            /\ task_error' = [task_error EXCEPT ![i] =
                   [kind |-> "Lines", path |-> i, line |-> 0]]
            /\ line_number' = line_number
    /\ UNCHANGED <<value, task_repeats>>
    /\ UNCHANGED <<callVars, inputVars, envVars, runVars, dbVars, writeVars>>

\* insert: self.db.transaction(); tx.get_for_update(&key, true) returns with the
\* lock held and the current value read.
GetForUpdate(i) ==
    /\ task_pc[i] = "insert"
    /\ LET k == key(CurrentLine(i)) IN
        /\ LockGranted(k, i)
        /\ lock' = Acquire(lock, k, i)
        /\ value' = [value EXCEPT ![i] = store[k]]
    /\ task_pc' = [task_pc EXCEPT ![i] = "locked"]
    /\ UNCHANGED <<line_number, task_repeats, task_error, store, log>>
    /\ UNCHANGED <<callVars, inputVars, envVars, runVars, writeVars>>

\* insert: get_for_update gives up waiting for a lock another transaction holds
\* (the engine's lock timeout); insert returns the Db error, which the worker maps
\* to KeyParsing(error, path, line_number).
LockTimeout(i) ==
    /\ task_pc[i] = "insert"
    /\ ~LockGranted(key(CurrentLine(i)), i)
    /\ task_pc' = [task_pc EXCEPT ![i] = "err"]
    /\ task_error' = [task_error EXCEPT ![i] =
           [kind |-> "KeyParsing", path |-> i, line |-> line_number[i]]]
    /\ UNCHANGED <<line_number, value, task_repeats>>
    /\ UNCHANGED <<callVars, inputVars, envVars, runVars, dbVars, writeVars>>

\* insert: the result is computed from the value read (an old value that is not
\* UTF-8 is an error: insert returns, nothing is put); tx.put and tx.commit write
\* the line and release the lock; the worker pushes the Repeat and takes the next
\* item of its line source.
Commit(i) ==
    /\ task_pc[i] = "locked"
    /\ LET line == CurrentLine(i)
           k == key(line)
           result == InsertResult(value[i], line)
       IN
        IF ResultIsErr(value[i], line)
        THEN /\ lock' = Rollback(lock, k)
             /\ InsertErr(i)
        ELSE /\ store' = Put(store, k, line)
             /\ lock' = Release(lock, k)
             /\ log' = [log EXCEPT ![k] = Append(@,
                           [task |-> i, line_number |-> line_number[i], line |-> line,
                            before |-> store[k], after |-> store'[k], result |-> result])]
             /\ task_repeats' = [task_repeats EXCEPT ![i] =
                                    PushRepeat(@, i, line_number[i], result, line)]
             /\ Advance(i, line_number[i] + 1)
    /\ value' = [value EXCEPT ![i] = None]
    /\ UNCHANGED <<callVars, inputVars, envVars, runVars, writeVars>>

----
\* session.rs: run, before the ingestion phase

\* A run that takes any output path.
OutputOkAlways == TRUE

\* output.as_ref().is_dir() (session.rs 49).
OutputOk == output_is_dir

\* The drop of db_dir when run returns: the directory is removed.
DropTempDir(d) == IF d = "present" THEN "removed" ELSE d

RunFail(kind) ==
    /\ run_pc' = "failed"
    /\ run_error' = [kind |-> kind, path |-> 0, line |-> 0]

\* The check of the output path: anything but an existing directory is InvalidOutput.
CheckOutput ==
    /\ run_pc = "start"
    /\ IF OutputOk
       THEN run_pc' = "discover" /\ UNCHANGED run_error
       ELSE RunFail("InvalidOutput")
    /\ UNCHANGED <<next_path, in_progress, repeats>>
    /\ UNCHANGED <<callVars, inputVars, envVars, taskVars, dbVars, writeVars>>

\* The path list: file_paths and sort_paths for an input directory, the input
\* itself otherwise; ok is whether read_dir and metadata succeed.
Discover(ok) ==
    /\ run_pc = "discover"
    /\ discovered' = TRUE
    /\ IF ok
       THEN run_pc' = "open" /\ UNCHANGED run_error
       ELSE RunFail("Io")
    /\ UNCHANGED <<next_path, in_progress, repeats, db_dir>>
    /\ UNCHANGED <<callVars, inputVars, taskVars, dbVars, writeVars>>

\* TempDir::new_in(temp_base, ..)? and LineDb::open(db_dir.path())?: the
\* directory may not be created; when the store does not open, run returns and
\* the drop of db_dir removes the directory.
StartOutcomes == {"ok", "tempdir", "open"}
OpenStore(outcome) ==
    /\ run_pc = "open"
    /\ CASE outcome = "ok" ->
            /\ db_dir' = "present"
            /\ run_pc' = "ingest"
            /\ UNCHANGED run_error
         [] outcome = "tempdir" ->
            /\ RunFail("Io")
            /\ UNCHANGED db_dir
         [] outcome = "open" ->
            /\ RunFail("Db")
            /\ db_dir' = DropTempDir("present")
    /\ UNCHANGED <<next_path, in_progress, repeats, discovered>>
    /\ UNCHANGED <<callVars, inputVars, taskVars, dbVars, writeVars>>

----
\* session.rs: run, the ingestion phase

\* A queue that always keeps one of its slots free.
CanSpawnBelow == Cardinality(in_progress) + 1 < parallelism /\ next_path <= NumFiles

\* A queue that takes a future for every path, whatever it holds.
CanSpawnUnbounded == next_path <= NumFiles

\* try_buffer_unordered polls the stream of paths while the queue holds fewer
\* than parallelism futures.
CanSpawn == Cardinality(in_progress) < parallelism /\ next_path <= NumFiles

\* The map closure runs for the next path: tokio::spawn starts its worker and the
\* JoinHandle joins the queue.
Spawn ==
    /\ run_pc = "ingest"
    /\ CanSpawn
    /\ task_pc' = [task_pc EXCEPT ![next_path] = "open"]
    /\ in_progress' = in_progress \cup {next_path}
    /\ next_path' = next_path + 1
    /\ UNCHANGED <<run_pc, repeats, run_error>>
    /\ UNCHANGED <<line_number, value, task_repeats, task_error>>
    /\ UNCHANGED <<callVars, inputVars, envVars, dbVars, writeVars>>

Finished(i) == task_pc[i] \in {"ok", "err"}

\* A collection that takes an Err result for an empty Ok.
SucceededOrFailed(i) == task_pc[i] \in {"ok", "err"}

\* The worker's result is Ok(values).
Succeeded(i) == task_pc[i] = "ok"

\* A collection that drops the Err results and goes on with the stream.
CollectSkippingErrors(i) ==
    /\ run_pc = "ingest"
    /\ ~CanSpawn
    /\ i \in in_progress
    /\ Finished(i)
    /\ repeats' = IF Succeeded(i) THEN repeats \o task_repeats[i] ELSE repeats
    /\ in_progress' = in_progress \ {i}
    /\ UNCHANGED <<run_pc, run_error, next_path>>
    /\ UNCHANGED <<callVars, inputVars, envVars, taskVars, dbVars, writeVars>>

\* A collection that keeps the values of the last worker only.
CollectReplacing(i) ==
    /\ run_pc = "ingest"
    /\ ~CanSpawn
    /\ i \in in_progress
    /\ Finished(i)
    /\ IF Succeeded(i)
       THEN /\ repeats' = task_repeats[i]
            /\ in_progress' = in_progress \ {i}
            /\ UNCHANGED <<run_pc, run_error, db_dir>>
       ELSE /\ run_pc' = "failed"
            /\ run_error' = task_error[i]
            /\ in_progress' = {}
            /\ db_dir' = DropTempDir(db_dir)
            /\ UNCHANGED repeats
    /\ UNCHANGED next_path
    /\ UNCHANGED <<callVars, inputVars, discovered, taskVars, dbVars, writeVars>>

\* The queue, once filled, yields a finished worker's result: Ok(values) is
\* flattened into the collection; Err ends try_collect, run returns the error and
\* the stream is dropped with the JoinHandles it holds.
Collect(i) ==
    /\ run_pc = "ingest"
    /\ ~CanSpawn
    /\ i \in in_progress
    /\ Finished(i)
    /\ IF Succeeded(i)
       THEN /\ repeats' = repeats \o task_repeats[i]
            /\ in_progress' = in_progress \ {i}
            /\ UNCHANGED <<run_pc, run_error, db_dir>>
       ELSE /\ run_pc' = "failed"
            /\ run_error' = task_error[i]
            /\ in_progress' = {}
            /\ db_dir' = DropTempDir(db_dir)
            /\ UNCHANGED repeats
    /\ UNCHANGED next_path
    /\ UNCHANGED <<callVars, inputVars, discovered, taskVars, dbVars, writeVars>>

\* A stream that ends with the paths, whatever the queue still holds.
StreamDoneEarly == next_path > NumFiles

\* The stream ends: the paths are exhausted and the queue is empty.
StreamDone == next_path > NumFiles /\ in_progress = {}

\* try_collect returns Ok(repeats) and run goes on to db.write.
IngestDone ==
    /\ run_pc = "ingest"
    /\ StreamDone
    /\ run_pc' = "write"
    /\ UNCHANGED <<next_path, in_progress, repeats, run_error>>
    /\ UNCHANGED <<callVars, inputVars, envVars, taskVars, dbVars, writeVars>>

----
\* db.rs: write

\* lines(): the keys of the store in ascending order.
ScanKeys == {k \in Keys : store[k] # None}
NthKey(n) == CHOOSE k \in ScanKeys : Cardinality({j \in ScanKeys : j < k}) = n - 1

\* A comparison that takes an equal path for a new one and a new one for equal.
PathChangedInverted(path) == Some(path) = last_path

\* The path differs from the previous record's (db.rs 99).
PathChanged(path) == Some(path) # last_path

\* A check that finds every entry vacant.
OccupiedNever(path) == FALSE

\* The path already has an entry in file_counts (Entry::Occupied).
Occupied(path) == path \in DOMAIN file_counts

\* f with x mapped to v, x joining the domain if it is not in it.
Insert(f, x, v) == [y \in DOMAIN f \cup {x} |-> IF y = x THEN v ELSE f[y]]

\* A count that starts again at every line.
CountLineReset(fc, path) == Insert(fc, path, 1)

\* *count += 1 on the path's entry, which or_default() made 0 when vacant.
CountLine(fc, path) == Insert(fc, path, (IF path \in DOMAIN fc THEN fc[path] ELSE 0) + 1)

\* File::create truncates; writeln! appends the value and a line terminator.
CreateFile(o, path) == Insert(o, path, <<>>)
WriteLine(o, path, v) == [o EXCEPT ![path] = Append(@, v)]

WriteFail(kind, path, k) ==
    /\ run_pc' = "failed"
    /\ run_error' = [kind |-> kind, path |-> path, line |-> k]
    /\ db_dir' = DropTempDir(db_dir)
    /\ UNCHANGED <<pos, file_counts, last_path, writer, out, write_report>>

\* One iteration of the loop of write over the scan; r is what F::path returns
\* for the record's key.
WriteRecord(r) ==
    /\ run_pc = "write"
    /\ pos < Cardinality(ScanKeys)
    /\ LET k == NthKey(pos + 1) IN
        /\ path_of' = Insert(path_of, k, r)
        /\ IF r = PathErr
           THEN WriteFail("Format", 0, k)
           ELSE IF PathChanged(r)
           THEN IF Occupied(r)
                THEN WriteFail("InvalidPath", r, k)
                ELSE /\ writer' = Some(r)
                     /\ last_path' = Some(r)
                     /\ file_counts' = CountLine(file_counts, r)
                     /\ out' = WriteLine(CreateFile(out, r), r, store[k])
                     /\ pos' = pos + 1
                     /\ UNCHANGED <<run_pc, run_error, write_report, db_dir>>
           ELSE IF ~Occupied(r) \/ writer = None
                THEN WriteFail("InvalidState", r, k)
                ELSE /\ file_counts' = CountLine(file_counts, r)
                     /\ out' = WriteLine(out, writer[1], store[k])
                     /\ pos' = pos + 1
                     /\ UNCHANGED <<run_pc, run_error, last_path, writer, write_report, db_dir>>
    /\ UNCHANGED <<next_path, in_progress, repeats>>
    /\ UNCHANGED <<callVars, inputVars, discovered, taskVars, dbVars>>

----
\* report.rs: WriteReport

RECURSIVE SumOver(_, _)
SumOver(f, S) ==
    IF S = {} THEN 0
    ELSE LET x == CHOOSE y \in S : TRUE IN f[x] + SumOver(f, S \ {x})

\* line_count(): the sum of the counts; file_count(): the number of paths.
line_count(report) == SumOver(report, DOMAIN report)
file_count(report) == Cardinality(DOMAIN report)

----
\* report.rs: RunReport

\* Repeat::is_collision: the replacement is Some.
is_collision(repeat) == repeat.replacement # None

\* A count that does not look at the replacement.
duplicate_count_unfiltered(rs) == Len(rs)

duplicate_count(rs) == Cardinality({x \in 1..Len(rs) : ~is_collision(rs[x])})
collision_count(rs) == Cardinality({x \in 1..Len(rs) : is_collision(rs[x])})

----
\* The scan is exhausted: write returns the WriteReport and run the RunReport.
WriteDone ==
    /\ run_pc = "write"
    /\ pos = Cardinality(ScanKeys)
    /\ write_report' = Some(file_counts)
    /\ run_pc' = "done"
    /\ db_dir' = DropTempDir(db_dir)
    /\ UNCHANGED <<next_path, in_progress, repeats, run_error>>
    /\ UNCHANGED <<pos, path_of, file_counts, last_path, writer, out>>
    /\ UNCHANGED <<callVars, inputVars, discovered, taskVars, dbVars>>

----
\* The state of run before its first step.
InitRun ==
    /\ discovered = FALSE
    /\ db_dir = "none"
    /\ run_pc = "start"
    /\ next_path = 1
    /\ in_progress = {}
    /\ repeats = <<>>
    /\ run_error = NoError
    /\ task_pc = [i \in Workers |-> "unspawned"]
    /\ line_number = [i \in Workers |-> 0]
    /\ value = [i \in Workers |-> None]
    /\ task_repeats = [i \in Workers |-> <<>>]
    /\ task_error = [i \in Workers |-> NoError]
    /\ store = [k \in Keys |-> None]
    /\ lock = [k \in Keys |-> 0]
    /\ log = [k \in Keys |-> <<>>]
    /\ pos = 0
    /\ path_of = <<>>
    /\ file_counts = <<>>
    /\ last_path = None
    /\ writer = None
    /\ out = <<>>
    /\ write_report = None

\* No call of sort_paths is under way.
SortIdle ==
    /\ sizes = <<>>
    /\ paths = <<>>
    /\ sort_pc = "idle"

\* No call of lines is observed on its own.
LinesIdle ==
    /\ source = <<>>
    /\ lines_result = <<>>
    /\ lines_pc = "idle"

Init ==
    /\ files \in [Workers -> FileContents]
    /\ parallelism \in 1..MaxParallelism
    /\ output_is_dir \in BOOLEAN
    /\ InitRun
    /\ SortIdle
    /\ LinesIdle

Next ==
    \/ CheckOutput
    \/ \E ok \in BOOLEAN : Discover(ok)
    \/ \E outcome \in StartOutcomes : OpenStore(outcome)
    \/ Spawn
    \/ \E i \in Workers : Open(i)
    \/ \E i \in Workers : GetForUpdate(i)
    \/ \E i \in Workers : LockTimeout(i)
    \/ \E i \in Workers : Commit(i)
    \/ \E i \in Workers : Collect(i)
    \/ IngestDone
    \/ \E r \in PathResults : WriteRecord(r)
    \/ WriteDone

Spec == Init /\ [][Next]_vars

\* Scheduling: run is polled until it returns, the runtime polls every spawned
\* task, the stream yields a finished result when it has one, and a call of
\* get_for_update returns, with the lock or with the lock timeout.
Fairness ==
    /\ WF_vars(CheckOutput)
    /\ WF_vars(\E ok \in BOOLEAN : Discover(ok))
    /\ WF_vars(\E outcome \in StartOutcomes : OpenStore(outcome))
    /\ WF_vars(Spawn)
    /\ WF_vars(\E i \in Workers : Collect(i))
    /\ WF_vars(IngestDone)
    /\ \A i \in Workers :
        /\ WF_vars(Open(i))
        /\ WF_vars(GetForUpdate(i) \/ LockTimeout(i))
        /\ WF_vars(Commit(i))

SpecFair == Spec /\ Fairness

----
\* session.rs: sort_paths, FileOrder::BySizeInterspersed

Sizes == 1..MaxSize

\* with_size_0: the pairs (size, path) in the order of paths.
WithSize(ps, sz) == [i \in 1..Len(ps) |-> <<sz[ps[i]], ps[i]>>]

\* sort_by_key is stable: x goes after every element whose key is not greater.
RECURSIVE InsertByKey(_, _)
InsertByKey(s, x) ==
    IF s = <<>> THEN <<x>>
    ELSE IF s[Len(s)][1] <= x[1] THEN Append(s, x)
    ELSE Append(InsertByKey(SubSeq(s, 1, Len(s) - 1), x), s[Len(s)])

RECURSIVE SortByKey(_)
SortByKey(s) ==
    IF s = <<>> THEN <<>>
    ELSE InsertByKey(SortByKey(SubSeq(s, 1, Len(s) - 1)), s[Len(s)])

Reverse(s) == [i \in 1..Len(s) |-> s[Len(s) + 1 - i]]

\* A split that gives the odd element to the lower half.
MidCeil(n) == (n + 1) \div 2

\* with_size_0.len() / 2
Mid(n) == n \div 2

\* The vector sort_paths leaves in paths.
sort_paths(ps, sz) ==
    LET with_size_0 == SortByKey(WithSize(ps, sz))
        n == Len(with_size_0)
        lower == SubSeq(with_size_0, 1, Mid(n))
        with_size_1 == Reverse(SubSeq(with_size_0, Mid(n) + 1, n))
        all == lower \o with_size_1
    IN  [i \in 1..n |-> all[i][2]]

\* sort_paths returns Ok(()).
SortPaths ==
    /\ sort_pc = "call"
    /\ paths' = sort_paths(paths, sizes)
    /\ sort_pc' = "ok"
    /\ UNCHANGED <<sizes, source, lines_result, lines_pc>>
    /\ UNCHANGED <<inputVars, envVars, runVars, taskVars, dbVars, writeVars>>

\* metadata() of a path fails: sort_paths returns the error, paths is drained.
SortPathsFail ==
    /\ sort_pc = "call"
    /\ paths # <<>>
    /\ paths' = <<>>
    /\ sort_pc' = "err"
    /\ UNCHANGED <<sizes, source, lines_result, lines_pc>>
    /\ UNCHANGED <<inputVars, envVars, runVars, taskVars, dbVars, writeVars>>

\* A call of sort_paths on any list of files, outside a run.
InitSort ==
    /\ sizes \in SeqsUpTo(Sizes, MaxFiles)
    /\ paths = [i \in 1..Len(sizes) |-> i]
    /\ sort_pc = "call"
    /\ files = [i \in Workers |-> [readable |-> FALSE, lines |-> <<>>]]
    /\ parallelism = 1
    /\ output_is_dir = FALSE
    /\ InitRun
    /\ LinesIdle

NextSort == SortPaths \/ SortPathsFail

SpecSort == InitSort /\ [][NextSort]_vars

----
\* lines.rs: lines

\* The extensions of the file names, and one that is not valid UTF-8.
NonUtf8 == "\\xFF"
Extensions == {"gz", "GZ", "zst", "Zst", "txt", "TXT", NonUtf8}

\* What the bytes of a file are: lines of text as they are, or compressed.
Codecs == {"plain", "gz", "zst"}

\* A path and what is there: is_file(), extension(), whether File::open and
\* ZstDecoder::new succeed, and the content.
Sources ==
    [is_file : BOOLEAN,
     extension : {None} \cup {Some(e) : e \in Extensions},
     opens : BOOLEAN,
     zst_new : BOOLEAN,
     codec : Codecs,
     text : SeqsUpTo(Lines, MaxLines)]

\* OsStr::to_str: None for a name that is not valid UTF-8.
to_str(e) == IF e = NonUtf8 THEN None ELSE Some(e)

\* An extension that defaults to the empty string.
extension_or_default(src) ==
    IF src.extension = None THEN Some("")
    ELSE IF to_str(src.extension[1]) = None THEN Some("") ELSE to_str(src.extension[1])

\* path.extension().and_then(|extension| extension.to_str())
extension(src) ==
    IF src.extension = None THEN None ELSE to_str(src.extension[1])

to_ascii_lowercase(e) ==
    CASE e = "GZ" -> "gz"
      [] e = "Zst" -> "zst"
      [] e = "TXT" -> "txt"
      [] OTHER -> e

\* The items of a LineReader over a decoder: the lines numbered from 1 when the
\* content is what the decoder reads, a Line error at the first read otherwise.
LineReader(decoder, src) ==
    IF decoder = src.codec
    THEN [n \in 1..Len(src.text) |-> [tag |-> "Ok", line_number |-> n, line |-> src.text[n]]]
    ELSE <<[tag |-> "Err", line_number |-> 1, line |-> <<>>]>>

LinesErr(kind) == [tag |-> "Err", kind |-> kind, decoder |-> "none", items |-> <<>>]
LinesOk(decoder, src) ==
    [tag |-> "Ok", kind |-> "none", decoder |-> decoder, items |-> LineReader(decoder, src)]

\* The result of lines(path).
lines(src) ==
    IF src.is_file
    THEN IF extension(src) # None
         THEN IF ~src.opens THEN LinesErr("File")
              ELSE LET ext == to_ascii_lowercase(extension(src)[1]) IN
                   CASE ext = "gz" -> LinesOk("gz", src)
                     [] ext = "zst" ->
                            IF src.zst_new THEN LinesOk("zst", src) ELSE LinesErr("File")
                     [] OTHER -> LinesOk("plain", src)
         ELSE LinesErr("InvalidPath")
    ELSE LinesErr("InvalidPath")

CallLines ==
    /\ lines_pc = "call"
    /\ lines_result' = lines(source)
    /\ lines_pc' = "return"
    /\ UNCHANGED <<source, sizes, paths, sort_pc>>
    /\ UNCHANGED <<inputVars, envVars, runVars, taskVars, dbVars, writeVars>>

\* A call of lines on any path, outside a run.
InitLines ==
    /\ source \in Sources
    /\ lines_result = <<>>
    /\ lines_pc = "call"
    /\ files = [i \in Workers |-> [readable |-> FALSE, lines |-> <<>>]]
    /\ parallelism = 1
    /\ output_is_dir = FALSE
    /\ InitRun
    /\ SortIdle

NextLines == CallLines

SpecLines == InitLines /\ [][NextLines]_vars

----
\* db.rs: LineDb used on a directory that already holds a store, and an engine
\* whose operations can fail

\* LineDb::open on an existing store: a key may hold bytes written by another
\* program, which need not be UTF-8.
StoredAtOpen == {None, InvalidUtf8}

\* tx.get_for_update(&key, true)? returns the engine's error: nothing was read and
\* no lock is held when insert returns.
ReadFail(i) ==
    /\ task_pc[i] = "insert"
    /\ InsertErr(i)
    /\ UNCHANGED <<value, lock>>
    /\ UNCHANGED <<callVars, inputVars, envVars, runVars, writeVars>>

\* tx.put(..)? or tx.commit()? returns the engine's error: the transaction is
\* dropped, nothing of it is in the store.
CommitFail(i) ==
    /\ task_pc[i] = "locked"
    /\ ~ResultIsErr(value[i], CurrentLine(i))
    /\ lock' = Rollback(lock, key(CurrentLine(i)))
    /\ InsertErr(i)
    /\ value' = [value EXCEPT ![i] = None]
    /\ UNCHANGED <<callVars, inputVars, envVars, runVars, writeVars>>

\* Tasks that insert the lines of their files, as the workers of run do, into a
\* store opened on an existing directory.
InitDb ==
    /\ files \in [Workers -> FileContents]
    /\ store \in [Keys -> StoredAtOpen]
    /\ task_pc = [i \in Workers |-> "open"]
    /\ parallelism = NumFiles
    /\ output_is_dir = TRUE
    /\ discovered = TRUE
    /\ db_dir = "present"
    /\ run_pc = "ingest"
    /\ next_path = NumFiles + 1
    /\ in_progress = Workers
    /\ repeats = <<>>
    /\ run_error = NoError
    /\ line_number = [i \in Workers |-> 0]
    /\ value = [i \in Workers |-> None]
    /\ task_repeats = [i \in Workers |-> <<>>]
    /\ task_error = [i \in Workers |-> NoError]
    /\ lock = [k \in Keys |-> 0]
    /\ log = [k \in Keys |-> <<>>]
    /\ pos = 0
    /\ path_of = <<>>
    /\ file_counts = <<>>
    /\ last_path = None
    /\ writer = None
    /\ out = <<>>
    /\ write_report = None
    /\ SortIdle
    /\ LinesIdle

NextDb ==
    \/ \E i \in Workers : Open(i)
    \/ \E i \in Workers : GetForUpdate(i)
    \/ \E i \in Workers : LockTimeout(i)
    \/ \E i \in Workers : ReadFail(i)
    \/ \E i \in Workers : Commit(i)
    \/ \E i \in Workers : CommitFail(i)

SpecDb == InitDb /\ [][NextDb]_vars

----
\* Properties of insert.

Last(s) == s[Len(s)]

\* The line the commit before the j-th commit on k wrote, None for the first.
Previous(k, j) == IF j = 1 THEN None ELSE log[k][j - 1].line

\* The workers between the locked read of k and the commit.
InFlight(k) == {i \in Workers : task_pc[i] = "locked" /\ key(CurrentLine(i)) = k}

\* C1: no lost updates. The inserts on a key take effect one at a time in commit
\* order: each found in the store what the commit before it on that key wrote, and
\* returned NotPresent if there was none, PresentSame if that line equals its own,
\* PresentDifferent(that line) otherwise; exactly one insert on a key that has
\* commits returned NotPresent.
C1_NoLostUpdates ==
    \A k \in Keys :
        /\ \A j \in 1..Len(log[k]) :
            LET e == log[k][j] IN
            /\ e.before = Previous(k, j)
            /\ e.result = IF Previous(k, j) = None THEN NotPresent
                          ELSE IF Previous(k, j) = e.line THEN PresentSame
                          ELSE PresentDifferent(Previous(k, j))
        /\ Len(log[k]) > 0 =>
            Cardinality({j \in 1..Len(log[k]) : log[k][j].result = NotPresent}) = 1

\* Two workers running at once committed different lines on one key, and the
\* second was answered with the first's line.
C1_Witness ==
    \E k \in Keys :
        /\ parallelism > 1
        /\ Len(log[k]) >= 2
        /\ log[k][1].task # log[k][2].task
        /\ log[k][2].result = PresentDifferent(log[k][1].line)

\* C2: at most one modification of a key is in flight. At most one worker is
\* between its locked read of a key and its commit, and it is the one the lock
\* manager names as the holder; a key nobody modifies is unlocked.
C2_OneInFlightPerKey ==
    \A k \in Keys :
        /\ Cardinality(InFlight(k)) <= 1
        /\ \A i \in InFlight(k) : lock[k] = i
        /\ InFlight(k) = {} => lock[k] = 0

\* A worker holds the lock of a key while another worker waits to read the same key.
C2_Witness ==
    \E k \in Keys, i, j \in Workers :
        /\ i # j
        /\ InFlight(k) = {i}
        /\ task_pc[j] = "insert"
        /\ key(CurrentLine(j)) = k

\* The lines of file i, and the lines of the input whose key is k.
LinesOf(i) == {file_lines(i)[n] : n \in 1..Len(file_lines(i))}
InputLines(k) == {l \in UNION {LinesOf(i) : i \in Workers} : key(l) = k}

\* C3: last write wins. The value stored for a key is the line of the most recent
\* commit on it, and None before the first; it is a line of the input with that
\* key; and each commit left in the store the line it wrote.
C3_LastWriteWins ==
    \A k \in Keys :
        /\ store[k] = IF log[k] = <<>> THEN None ELSE Last(log[k]).line
        /\ store[k] # None => store[k] \in InputLines(k)
        /\ \A j \in 1..Len(log[k]) : log[k][j].after = log[k][j].line

\* A key was written twice with different lines, the second by the worker of a
\* path earlier in the list than the first's (commit order is not queue order).
C3_Witness ==
    \E k \in Keys :
        /\ Len(log[k]) = 2
        /\ log[k][1].line # log[k][2].line
        /\ log[k][2].task < log[k][1].task
        /\ store[k] = log[k][2].line

----
\* Properties of the ingestion phase.

\* The errors of write, and the states of run after try_collect returned Ok.
WriteErrors == {"Format", "InvalidPath", "InvalidState"}
IngestionSucceeded ==
    \/ run_pc \in {"write", "done"}
    \/ run_pc = "failed" /\ run_error.kind \in WriteErrors

KeysOf(i) == {key(l) : l \in LinesOf(i)}
PairwiseDisjoint == \A i, j \in Workers : i # j => KeysOf(i) \cap KeysOf(j) = {}

RECURSIVE SumUniqueKeys(_)
SumUniqueKeys(n) == IF n = 0 THEN 0 ELSE Cardinality(KeysOf(n)) + SumUniqueKeys(n - 1)

\* C4: when the files have pairwise disjoint key sets and parallelism > 1, the
\* store after ingestion holds as many keys as the files' unique keys sum to, and
\* the key of every line of every file is stored.
C4_DisjointFilesCount ==
    (IngestionSucceeded /\ parallelism > 1 /\ PairwiseDisjoint) =>
        /\ count = SumUniqueKeys(NumFiles)
        /\ \A i \in Workers : \A l \in LinesOf(i) : store[key(l)] # None

\* Two files with disjoint keys and three unique keys between them were ingested
\* with two workers at once.
C4_Witness ==
    /\ run_pc = "done"
    /\ parallelism > 1
    /\ PairwiseDisjoint
    /\ \A i \in Workers : KeysOf(i) # {}
    /\ count = 3

\* The places of worker i's repeats tagged with line n of its path.
RepeatsAt(i, n) ==
    {x \in 1..Len(task_repeats[i]) : task_repeats[i][x].location = Location(i, n)}

\* C5: the insert of L2 that follows, in commit order, an insert of a different
\* line L1 on the same key yields one Repeat, tagged with the path of L2 and the
\* line number L2 has in it, whose replacement is {old_value: L1, new_value: L2}.
C5_CollisionRepeat ==
    \A k \in Keys : \A j \in 2..Len(log[k]) :
        LET e1 == log[k][j - 1]
            e2 == log[k][j]
        IN  e1.line # e2.line =>
            /\ file_lines(e2.task)[e2.line_number] = e2.line
            /\ Cardinality(RepeatsAt(e2.task, e2.line_number)) = 1
            /\ \A x \in RepeatsAt(e2.task, e2.line_number) :
                task_repeats[e2.task][x].replacement =
                    [old_value |-> e1.line, new_value |-> e2.line]

\* L1 and then a different L2 were inserted on one key, and the collision is
\* in the repeats run collected.
C5_Witness ==
    \E k \in Keys :
        /\ Len(log[k]) = 2
        /\ log[k][1].line # log[k][2].line
        /\ run_pc = "done"
        /\ Len(repeats) = 1
        /\ repeats[1].replacement =
               [old_value |-> log[k][1].line, new_value |-> log[k][2].line]

\* C6: the same line inserted twice on a key. The first insert on a key yields no
\* Repeat; an insert of the line the commit before it wrote yields one Repeat,
\* whose replacement is None, and leaves the stored value as it was.
C6_DuplicateRepeat ==
    \A k \in Keys : \A j \in 1..Len(log[k]) :
        LET e == log[k][j] IN
        /\ j = 1 => RepeatsAt(e.task, e.line_number) = {}
        /\ (j > 1 /\ log[k][j - 1].line = e.line) =>
            /\ Cardinality(RepeatsAt(e.task, e.line_number)) = 1
            /\ \A x \in RepeatsAt(e.task, e.line_number) :
                task_repeats[e.task][x].replacement = None
            /\ e.before = e.line
            /\ e.after = e.before

\* One line was inserted twice, and the duplicate is the one Repeat run collected.
C6_Witness ==
    \E k \in Keys :
        /\ Len(log[k]) = 2
        /\ log[k][1].line = log[k][2].line
        /\ run_pc = "done"
        /\ Len(repeats) = 1
        /\ repeats[1].replacement = None

----
\* Properties of write.

\* The elements of a set of keys in ascending order.
RECURSIVE Ascending(_)
Ascending(S) ==
    IF S = {} THEN <<>>
    ELSE LET m == CHOOSE x \in S : \A y \in S : x <= y
         IN  <<m>> \o Ascending(S \ {m})

\* The keys among K whose derived path is p, and their values in key order.
KeysFor(p, K) == {k \in K \cap DOMAIN path_of : path_of[k] = p}
ValuesFor(p, K) ==
    LET ks == Ascending(KeysFor(p, K)) IN [n \in 1..Len(ks) |-> store[ks[n]]]

\* In the scan so far, the path derived for k was derived for an earlier key and
\* a different path was derived in between.
Reappears(k) ==
    /\ k \in DOMAIN path_of
    /\ path_of[k] # PathErr
    /\ \E k1, k2 \in DOMAIN path_of :
        k1 < k2 /\ k2 < k /\ path_of[k1] = path_of[k] /\ path_of[k2] # path_of[k]

\* C7: the contiguity check of write. If the path derived for a key was derived
\* before and another path came in between, write has failed with InvalidPath of
\* that path at that key, the key's record was not written and the path's file
\* was not created again: it holds the values of the earlier keys. And write
\* fails with InvalidPath only there: never when every path's keys are
\* contiguous in key order.
C7_ContiguityCheck ==
    /\ \A k \in DOMAIN path_of : Reappears(k) =>
        /\ run_pc = "failed"
        /\ run_error = [kind |-> "InvalidPath", path |-> path_of[k], line |-> k]
        /\ pos = Cardinality({j \in ScanKeys : j < k})
        /\ out[path_of[k]] = ValuesFor(path_of[k], {j \in ScanKeys : j < k})
    /\ run_error.kind = "InvalidPath" =>
        /\ Reappears(run_error.line)
        /\ path_of[run_error.line] = run_error.path

\* Three keys are stored, and the path of the first was derived again for the
\* third after another path for the second.
C7_Witness ==
    /\ run_error.kind = "InvalidPath"
    /\ count = 3
    /\ run_error.line = 3
    /\ path_of[1] = path_of[3]
    /\ path_of[2] # path_of[1]

\* C8: a write that succeeded has derived the path of every stored key, created
\* one file per derived path, and written to each file the values of the keys
\* mapping to it, each once, in ascending key order; the report counts for each
\* path the keys mapping to it, and the counts sum to count().
C8_WriteComplete ==
    run_pc = "done" =>
        /\ DOMAIN path_of = ScanKeys
        /\ DOMAIN out = {path_of[k] : k \in ScanKeys}
        /\ \A p \in DOMAIN out : out[p] = ValuesFor(p, ScanKeys)
        /\ write_report # None
        /\ LET report == write_report[1] IN
            /\ DOMAIN report = DOMAIN out
            /\ \A p \in DOMAIN report : report[p] = Cardinality(KeysFor(p, ScanKeys))
            /\ line_count(report) = count
            /\ file_count(report) = Cardinality(DOMAIN out)

\* Three keys were written to two files, two of them to one file.
C8_Witness ==
    /\ run_pc = "done"
    /\ count = 3
    /\ write_report # None
    /\ file_count(write_report[1]) = 2
    /\ \E p \in DOMAIN out : Len(out[p]) = 2

\* C9: write-back is strictly after ingestion. Whenever write has begun (it has
\* read a record, derived a path or created a file, returned or failed), every
\* worker of every path has returned Ok and the queue of run is empty, so that no
\* insert is pending.
C9_WriteAfterIngestion ==
    (IngestionSucceeded \/ pos > 0 \/ DOMAIN out # {} \/ DOMAIN path_of # {}) =>
        /\ IngestionSucceeded
        /\ \A i \in Workers : task_pc[i] = "ok"
        /\ in_progress = {}
        /\ \A k \in Keys : lock[k] = 0

\* Write has created a file after two workers ran at once.
C9_Witness ==
    /\ parallelism > 1
    /\ DOMAIN out # {}
    /\ \A i \in Workers : file_lines(i) # <<>>

\* run has returned the error of a worker.
IngestionFailed == run_pc = "failed" /\ run_error.kind \in {"Lines", "KeyParsing"}

\* The workers that were spawned and have not returned.
Running == {i \in Workers : task_pc[i] \in {"open", "insert", "locked"}}

\* C10: cancellation on failure. Once run has returned a worker's error the
\* outstanding workers are cancelled or drained: none of them is still running,
\* so that no insert is performed on the store from then on (no lock is taken,
\* nothing is committed).
C10_CancelledOnFailure ==
    [][IngestionFailed => (store' = store /\ log' = log /\ lock' = lock)]_vars

----
\* C11: bounded concurrency. In the ingestion phase the workers that were spawned
\* and whose result has not been collected are at most parallelism (every worker
\* that is running is one of them), and no worker can be spawned in a state
\* where parallelism of them are in flight.
C11_BoundedConcurrency ==
    run_pc = "ingest" =>
        /\ Cardinality(in_progress) <= parallelism
        /\ Running \subseteq in_progress
        /\ \A i \in in_progress : task_pc[i] # "unspawned"
        /\ Cardinality(in_progress) >= parallelism => ~ENABLED Spawn

\* The pool is full while a path is still queued.
C11_Witness ==
    /\ run_pc = "ingest"
    /\ Cardinality(in_progress) = parallelism
    /\ next_path <= NumFiles
    /\ Running # {}

----
\* C12: the workspace is removed on every exit path. Whenever run has returned,
\* with a RunReport or with any error, no directory created by the run remains
\* under the temporary base and no worker is still using the store in it.
C12_WorkspaceRemoved ==
    run_pc \in {"done", "failed"} => (db_dir # "present" /\ Running = {})

----
\* A worker has failed: lines() or a line of its file is an error, or an insert
\* returned an error.
Failed == {i \in Workers : task_pc[i] = "err"}

\* write has not been called: no record read, no path derived, no file created.
WriteUntouched ==
    /\ pos = 0
    /\ DOMAIN path_of = {}
    /\ DOMAIN out = {}
    /\ DOMAIN file_counts = {}
    /\ last_path = None
    /\ writer = None
    /\ write_report = None

\* C13: ingestion is all-or-nothing. If any worker has failed, run is either
\* still collecting or has returned an error: it has no RunReport, write is never
\* called and no file of the output directory is created or modified; the error
\* run returns is the error of a worker that failed.
C13_AllOrNothing ==
    Failed # {} =>
        /\ run_pc \in {"ingest", "failed"}
        /\ WriteUntouched
        /\ run_pc = "failed" => \E i \in Failed : run_error = task_error[i]

\* run has returned a worker's error after another worker's insert was committed.
C13_Witness ==
    /\ run_pc = "failed"
    /\ Failed # {}
    /\ \E k \in Keys : store[k] # None
    /\ WriteUntouched

----
\* Nothing but the check of the output path has happened.
NoWorkStarted ==
    /\ ~discovered
    /\ db_dir = "none"
    /\ \A i \in Workers : task_pc[i] = "unspawned"
    /\ next_path = 1 /\ in_progress = {}
    /\ \A k \in Keys : store[k] = None /\ lock[k] = 0 /\ log[k] = <<>>
    /\ WriteUntouched

\* C14: fail-fast output check. If the output path is missing or not a directory
\* run returns InvalidOutput before any other work: the input is not discovered
\* and no size is read, no workspace or store is created, no worker is started and
\* no file is written; and InvalidOutput is returned for no other reason.
C14_FailFastOutput ==
    /\ ~output_is_dir =>
            /\ run_pc \in {"start", "failed"}
            /\ run_pc = "failed" => run_error.kind = "InvalidOutput"
            /\ NoWorkStarted
    /\ run_error.kind = "InvalidOutput" => ~output_is_dir

\* run has returned InvalidOutput.
C14_Witness ==
    /\ ~output_is_dir
    /\ run_pc = "failed"
    /\ run_error.kind = "InvalidOutput"

----
SizesOf(ps) == [i \in 1..Len(ps) |-> sizes[ps[i]]]

\* C15: BySizeInterspersed. For any list of n files sort_paths leaves in paths a
\* permutation of the list: its first floor(n/2) files are smallest ones in
\* ascending size order, the other n - floor(n/2) follow in descending size
\* order; sizes 1, 2, 3, 4, 5, 6 give the order 1, 2, 3, 6, 5, 4.
C15_BySizeInterspersed ==
    sort_pc = "ok" =>
        LET n == Len(sizes)
            h == n \div 2
            sz == SizesOf(paths)
        IN  /\ Len(paths) = n
            /\ {paths[i] : i \in 1..n} = 1..n
            /\ \A i, j \in 1..h : i < j => sz[i] <= sz[j]
            /\ \A i, j \in (h + 1)..n : i < j => sz[i] >= sz[j]
            /\ \A i \in 1..h, j \in (h + 1)..n : sz[i] <= sz[j]
            /\ sizes = <<1, 2, 3, 4, 5, 6>> => sz = <<1, 2, 3, 6, 5, 4>>

\* Five files in no order of size are sorted: two ascending, three descending.
C15_Witness ==
    /\ sort_pc = "ok"
    /\ sizes = <<5, 1, 4, 2, 3>>
    /\ SizesOf(paths) = <<1, 2, 5, 4, 3>>

----
\* The inserts of worker i that have committed, on any key.
Committed(i) == {e \in UNION {{log[k][j] : j \in 1..Len(log[k])} : k \in Keys} : e.task = i}
CommittedNumbers(i) == {e.line_number : e \in Committed(i)}

\* C16: within one file the lines are inserted in file order. A worker that is
\* calling insert for line n has committed the inserts of lines 1..n-1 of its
\* file, each once and with the line the file has there, and a worker that
\* returned Ok has committed them all; its repeats carry its own path and, in
\* ascending order, the 1-based numbers of the lines whose insert found the key
\* present.
C16_FileOrder ==
    \A i \in Workers :
        /\ task_pc[i] \in {"insert", "locked"} =>
                CommittedNumbers(i) = 1..(line_number[i] - 1)
        /\ task_pc[i] = "ok" => CommittedNumbers(i) = 1..Len(file_lines(i))
        /\ task_pc[i] \in {"unspawned", "open"} => CommittedNumbers(i) = {}
        /\ \A e \in Committed(i) :
                /\ e.line_number \in 1..Len(file_lines(i))
                /\ e.line = file_lines(i)[e.line_number]
                /\ \A f \in Committed(i) : f.line_number = e.line_number => f = e
                /\ (e.result.tag # "NotPresent") <=>
                        (\E x \in 1..Len(task_repeats[i]) :
                            task_repeats[i][x].location.line_number = e.line_number)
        /\ \A x \in 1..Len(task_repeats[i]) :
                /\ task_repeats[i][x].location.path = i
                /\ task_repeats[i][x].location.line_number \in CommittedNumbers(i)
                /\ \A y \in 1..Len(task_repeats[i]) : x < y =>
                        task_repeats[i][x].location.line_number
                            < task_repeats[i][y].location.line_number

\* A worker has committed both lines of its file, the second with a repeat, and
\* the first line found its key absent.
C16_Witness ==
    \E i \in Workers :
        /\ task_pc[i] = "ok"
        /\ CommittedNumbers(i) = {1, 2}
        /\ Len(task_repeats[i]) = 1
        /\ task_repeats[i][1].location = [path |-> i, line_number |-> 2]

----
\* The inserts that found their key present with the same content, and with a
\* different one.
AllCommitted == UNION {Committed(i) : i \in Workers}
DuplicateInserts == {e \in AllCommitted : e.before # None /\ e.before = e.line}
CollisionInserts == {e \in AllCommitted : e.before # None /\ e.before # e.line}

\* C17: the counts of the RunReport. When run has returned its report,
\* duplicate_count() is the number of inserts that found their key present with
\* the same content, collision_count() the number that found it present with a
\* different content, and the two add up to the length of repeats.
C17_ReportCounts ==
    run_pc = "done" =>
        /\ duplicate_count(repeats) = Cardinality(DuplicateInserts)
        /\ collision_count(repeats) = Cardinality(CollisionInserts)
        /\ duplicate_count(repeats) + collision_count(repeats) = Len(repeats)

\* A report with one duplicate and one collision.
C17_Witness ==
    /\ run_pc = "done"
    /\ duplicate_count(repeats) = 1
    /\ collision_count(repeats) = 1
    /\ count = 2

----
\* The workers other than i whose insert holds the lock of key k.
Holders(k, i) == {j \in Workers \ {i} : task_pc[j] = "locked" /\ key(CurrentLine(j)) = k}

\* C18: distinct keys never block each other. An insert on key k that has not yet
\* read can take the lock and read unless another insert holds the lock of k
\* itself, whatever inserts on other keys are in flight; only then can it wait
\* (and time out); and an insert that holds its lock can always commit.
C18_DistinctKeysNeverBlock ==
    \A i \in Workers :
        /\ task_pc[i] = "insert" =>
                LET k == key(CurrentLine(i)) IN
                    /\ Holders(k, i) = {} => ENABLED GetForUpdate(i)
                    /\ ENABLED LockTimeout(i) => Holders(k, i) # {}
        /\ task_pc[i] = "locked" => ENABLED Commit(i)

\* Two inserts on different keys hold their locks at once.
C18_Witness ==
    \E i, j \in Workers :
        /\ i # j
        /\ task_pc[i] = "locked" /\ task_pc[j] = "locked"
        /\ key(CurrentLine(i)) # key(CurrentLine(j))
        /\ lock[key(CurrentLine(i))] = i /\ lock[key(CurrentLine(j))] = j

----
\* The decoder a file name asks for: gzip for .gz, zstd for .zst, in any letter
\* case, and none (plain text) otherwise.
GzNames == {Some("gz"), Some("GZ")}
ZstNames == {Some("zst"), Some("Zst")}
DecoderFor(ext) ==
    IF ext \in GzNames THEN "gz" ELSE IF ext \in ZstNames THEN "zst" ELSE "plain"

\* The file can be read as its name asks: it opens, the decoder can be built and
\* the content is in the encoding of the decoder.
ReadableAs(src) ==
    /\ src.opens
    /\ src.zst_new
    /\ src.codec = DecoderFor(src.extension)

\* lines returned a reader that yields the lines of the file, numbered from 1.
YieldsLines(src, result) ==
    /\ result.tag = "Ok"
    /\ result.decoder = DecoderFor(src.extension)
    /\ Len(result.items) = Len(src.text)
    /\ \A n \in 1..Len(src.text) :
            result.items[n] = [tag |-> "Ok", line_number |-> n, line |-> src.text[n]]

\* The file name has an extension that is valid UTF-8.
HasExtension(src) == src.extension # None /\ src.extension # Some(NonUtf8)

\* C19 as stated: the line source has a plain-text fallback. For every existing
\* regular file lines() yields its lines, decoding gzip for .gz, zstd for .zst and
\* reading plain text in every other case, a name with an unrecognised extension
\* or with no extension included.
C19_PlainTextFallback ==
    (lines_pc = "return" /\ source.is_file /\ ReadableAs(source)) =>
        YieldsLines(source, lines_result)

\* C19 amended: for every existing regular file whose name has an extension,
\* lines() yields its lines, decoding gzip for .gz, zstd for .zst and reading plain
\* text for every other extension; a file whose name has no extension (or one that
\* is not valid UTF-8) is rejected with InvalidPath, as is a path that is not a
\* regular file.
C19_PlainTextFallbackWithExtension ==
    lines_pc = "return" =>
        /\ (source.is_file /\ HasExtension(source) /\ ReadableAs(source)) =>
                YieldsLines(source, lines_result)
        /\ (~source.is_file \/ ~HasExtension(source)) =>
                (lines_result.tag = "Err" /\ lines_result.kind = "InvalidPath")

\* A file with an unrecognised extension was read as plain text, two lines of it.
C19_Witness ==
    /\ lines_pc = "return"
    /\ source.is_file
    /\ source.extension = Some("TXT")
    /\ source.codec = "plain"
    /\ Len(source.text) = 2
    /\ YieldsLines(source, lines_result)
    /\ lines_result.decoder = "plain"

----
\* C20: InvalidState is unreachable in write. For every store content and every
\* result of the path capability write never returns InvalidState: whenever a
\* record has been written (there is a previous path), that path has an entry in
\* the per-path counts and the writer open is the writer of that path, so that a
\* record of the same path finds both.
C20_InvalidStateUnreachable ==
    /\ run_error.kind # "InvalidState"
    /\ last_path # None =>
            /\ Occupied(last_path[1])
            /\ file_counts[last_path[1]] >= 1
            /\ writer = last_path
    /\ last_path = None => (writer = None /\ DOMAIN file_counts = {} /\ pos = 0)

\* A record was written to the path of the record before it.
C20_Witness ==
    /\ run_pc = "write"
    /\ pos >= 2
    /\ path_of[NthKey(pos)] = path_of[NthKey(pos - 1)]
    /\ file_counts[last_path[1]] >= 2
    /\ Len(out[last_path[1]]) >= 2

----
\* The repeats of the report that are tagged with the insert of line n of path i.
ReportedAt(i, n) == {x \in 1..Len(repeats) : repeats[x].location = Location(i, n)}

RECURSIVE TotalLines(_)
TotalLines(n) == IF n = 0 THEN 0 ELSE Len(file_lines(n)) + TotalLines(n - 1)

\* C21: complete repeat aggregation. On every successful run the repeats of the
\* report hold exactly one Repeat for each insert that found its key present and
\* none for an insert that found it absent, so that their number is the number
\* of lines ingested less count(); the repeats of one file are contiguous and in
\* ascending order of line number.
C21_CompleteAggregation ==
    IngestionSucceeded =>
        /\ \A e \in AllCommitted :
                Cardinality(ReportedAt(e.task, e.line_number)) =
                    IF e.before = None THEN 0 ELSE 1
        /\ \A x \in 1..Len(repeats) :
                \E e \in AllCommitted :
                    repeats[x].location = Location(e.task, e.line_number)
        /\ Cardinality(AllCommitted) = TotalLines(NumFiles)
        /\ Len(repeats) = TotalLines(NumFiles) - count
        /\ \A x, y \in 1..Len(repeats) :
                (x < y /\ repeats[x].location.path = repeats[y].location.path) =>
                    /\ repeats[x].location.line_number < repeats[y].location.line_number
                    /\ \A z \in x..y : repeats[z].location.path = repeats[x].location.path

\* A report holds repeats of two files that ran at once.
C21_Witness ==
    /\ run_pc = "done"
    /\ parallelism > 1
    /\ Len(repeats) = 2
    /\ repeats[1].location.path # repeats[2].location.path
    /\ count = 2

----
\* The insert of worker i returned an error: the worker has stopped at the line
\* it was inserting.
InsertFailed(i) == task_pc[i] = "err" /\ task_error[i].kind = "KeyParsing"

\* C22: a failed insert leaves the store unchanged. If an insert returned an
\* error (the key derivation failed, the value stored differs from the line and is
\* not valid UTF-8, or the engine's read, put or commit failed), it committed no
\* put and holds no lock: the value of every key is still that of the last
\* insert committed on it, or, with none committed, the value the key had when
\* the store was opened.
C22_FailedInsertNoEffect ==
    /\ \A i \in Workers : InsertFailed(i) =>
            /\ \A e \in Committed(i) : e.line_number < task_error[i].line
            /\ \A k \in Keys : lock[k] # i
            /\ value[i] = None
    /\ \A k \in Keys :
            /\ log[k] = <<>> => store[k] \in StoredAtOpen
            /\ log[k] # <<>> => store[k] = log[k][Len(log[k])].line
            /\ lock[k] # 0 => task_pc[lock[k]] = "locked"

\* An insert failed on stored bytes that are not UTF-8: they are still stored and
\* the key is unlocked.
C22_Witness ==
    \E i \in Workers :
        /\ InsertFailed(i)
        /\ task_error[i].line = 2
        /\ Cardinality(Committed(i)) = 1
        /\ key(CurrentLine(i)) # KeyErr
        /\ LET k == key(CurrentLine(i)) IN
            /\ log[k] = <<>>
            /\ store[k] = InvalidUtf8
            /\ lock[k] = 0

----
\* The locks worker i holds.
LocksOf(i) == {k \in Keys : lock[k] = i}

IngestionEnded == run_pc \in {"write", "done", "failed"}

\* C23: ingestion terminates without deadlock. For parallelism >= 1, under fair
\* scheduling, every worker that was started eventually finishes and the
\* ingestion phase eventually ends, in success or failure; an insert holds at
\* most one lock, that of the key it is about to commit, and no lock is held by
\* a worker that is waiting or has finished.
C23_IngestionTerminates ==
    /\ [](\A i \in Workers :
            /\ Cardinality(LocksOf(i)) <= 1
            /\ LocksOf(i) # {} => task_pc[i] = "locked")
    /\ <>IngestionEnded
    /\ \A i \in Workers : (task_pc[i] # "unspawned") ~> Finished(i)

\* Ingestion has ended with both workers finished, after they ran at once and
\* inserted on the same key.
C23_Witness ==
    /\ run_pc = "write"
    /\ parallelism > 1
    /\ \A i \in Workers : task_pc[i] = "ok"
    /\ \E k \in Keys : Len(log[k]) = 2 /\ log[k][1].task # log[k][2].task

====
